---- MODULE Spec2Model ----
(***************************************************************************)
(* Model of the instruction decoder of vm2 (src/decode.rs).                *)
(*                                                                         *)
(* A raw word is represented by the record the bit-layout parser           *)
(* (zkevm_opcode_defs, EncodingModeProduction) returns for it: the decoder *)
(* reads nothing of a word but the fields of that record.  An Instruction  *)
(* is represented by the constructor call that builds it (from_binop,      *)
(* from_jump, from_nop, jump_to_beginning, end_execution) together with    *)
(* its arguments; a panic is represented by its message.                   *)
(***************************************************************************)
EXTENDS Integers, Sequences, FiniteSets, TLC

VARIABLES word, instr, raw, program

vars == <<word, instr, raw, program>>

(***************************************************************************)
(* Bounds of the model.                                                    *)
(***************************************************************************)
\* the non-zero 16-bit immediate exercised (the code's immediates are u16)
MaxImm == 1
\* the non-zero register index exercised (the code's indices are u8)
MaxReg == 1
\* how many operand fields of a word differ from the all-zero word at once
MaxVaried == 3
\* longest short program image
MaxLen == 3

(***************************************************************************)
(* The parsed word: zkevm_opcode_defs types the decoder matches on.        *)
(***************************************************************************)
Conditions == {"Always", "Gt", "Lt", "Eq", "Ge", "Le", "Ne", "GtOrLt"}

RegOnlyTags == {"RegOnly", "RegOrImm_UseRegOnly", "Full_UseRegOnly"}

Imm16Tags == {"RegOrImm_UseImm16Only", "Full_UseImm16Only"}

OperandTypes ==
    RegOnlyTags \cup Imm16Tags \cup
    {"Full_UseAbsoluteOnStack", "Full_UseStackWithPushPop",
     "Full_UseStackWithOffset", "Full_UseCodePage"}

BinopOpcodes ==
    {"Add", "Sub", "Mul", "Div", "Binop_Xor", "Binop_And", "Binop_Or",
     "Shift_Shl", "Shift_Shr", "Shift_Rol", "Shift_Ror"}

TodoOpcodes ==
    {"Context", "Ptr_Add", "Ptr_Sub", "Ptr_Pack", "Ptr_Shrink", "NearCall",
     "Log", "FarCall", "Ret", "UMA", "Invalid"}

Opcodes == BinopOpcodes \cup {"Jump", "Nop"} \cup TodoOpcodes

\* the immediates and register indices exercised: zero and the bound
Imm16 == {0, MaxImm}

RegIdx == {0, MaxReg}

\* the word of the given opcode and operand tags whose other fields are zero
ZeroWord(op, src, dst) ==
    [opcode |-> op, condition |-> "Always",
     src0_operand_type |-> src, dst0_operand_type |-> dst,
     imm_0 |-> 0, imm_1 |-> 0,
     src0_reg_idx |-> 0, src1_reg_idx |-> 0,
     dst0_reg_idx |-> 0, dst1_reg_idx |-> 0,
     swap_flag |-> FALSE, set_flags_flag |-> FALSE]

OperandFields ==
    [condition : Conditions, imm_0 : Imm16, imm_1 : Imm16,
     src0_reg_idx : RegIdx, src1_reg_idx : RegIdx,
     dst0_reg_idx : RegIdx, dst1_reg_idx : RegIdx,
     swap_flag : BOOLEAN, set_flags_flag : BOOLEAN]

Count(b) == IF b THEN 1 ELSE 0

\* how many operand fields differ from those of the all-zero word
NumVaried(o) ==
    Count(o.condition # "Always") + Count(o.imm_0 # 0) + Count(o.imm_1 # 0)
    + Count(o.src0_reg_idx # 0) + Count(o.src1_reg_idx # 0)
    + Count(o.dst0_reg_idx # 0) + Count(o.dst1_reg_idx # 0)
    + Count(o.swap_flag) + Count(o.set_flags_flag)

OperandChoices == {o \in OperandFields : NumVaried(o) <= MaxVaried}

MakeWord(op, src, dst, o) ==
    [opcode |-> op, condition |-> o.condition,
     src0_operand_type |-> src, dst0_operand_type |-> dst,
     imm_0 |-> o.imm_0, imm_1 |-> o.imm_1,
     src0_reg_idx |-> o.src0_reg_idx, src1_reg_idx |-> o.src1_reg_idx,
     dst0_reg_idx |-> o.dst0_reg_idx, dst1_reg_idx |-> o.dst1_reg_idx,
     swap_flag |-> o.swap_flag, set_flags_flag |-> o.set_flags_flag]

(***************************************************************************)
(* Values built by the decoder.                                            *)
(***************************************************************************)
StackLikeParameters(imm, reg) == [immediate |-> imm, register |-> reg]

Register1(r) == [kind |-> "Register", register |-> r]

Register2(r) == [kind |-> "Register", register |-> r]

Immediate1(v) == [kind |-> "Immediate", immediate |-> v]

AbsoluteStack(p) == [kind |-> "AbsoluteStack", params |-> p]

AdvanceStackPointer(p) == [kind |-> "AdvanceStackPointer", params |-> p]

RelativeStack(p) == [kind |-> "RelativeStack", params |-> p]

CodePage(p) == [kind |-> "CodePage", params |-> p]

\* the empty second destination, ()
Unit == [kind |-> "Unit"]

Panic(m) == [tag |-> "panic", msg |-> m]

IsPanic(x) == "msg" \in DOMAIN x

from_binop(op, s1, s2, o, snd, pred, swap, setf) ==
    [tag |-> "binop", op |-> op, src1 |-> s1, src2 |-> s2, out |-> o,
     out2 |-> snd, predicate |-> pred, swap |-> swap, set_flags |-> setf]

from_jump(s, pred) == [tag |-> "jump", source |-> s, predicate |-> pred]

from_nop(pop, push) == [tag |-> "nop", pop |-> pop, push |-> push]

jump_to_beginning == [tag |-> "jump_to_beginning"]

end_execution == [tag |-> "end_execution"]

\* the value of instr and program before the call
NotRun == [tag |-> "not_run"]

(***************************************************************************)
(* decode: one word to one Instruction, or a panic.                        *)
(***************************************************************************)
predicate_ge_as_gt(parsed) ==
    CASE parsed.condition = "Always" -> "Always"
      [] parsed.condition = "Gt" -> "IfGT"
      [] parsed.condition = "Lt" -> "IfLT"
      [] parsed.condition = "Eq" -> "IfEQ"
      [] parsed.condition = "Ge" -> "IfGT"
      [] parsed.condition = "Le" -> "IfLE"
      [] parsed.condition = "Ne" -> "IfNotEQ"
      [] parsed.condition = "GtOrLt" -> "IfGtOrLT"

predicate(parsed) ==
    CASE parsed.condition = "Always" -> "Always"
      [] parsed.condition = "Gt" -> "IfGT"
      [] parsed.condition = "Lt" -> "IfLT"
      [] parsed.condition = "Eq" -> "IfEQ"
      [] parsed.condition = "Ge" -> "IfGE"
      [] parsed.condition = "Le" -> "IfLE"
      [] parsed.condition = "Ne" -> "IfNotEQ"
      [] parsed.condition = "GtOrLt" -> "IfGtOrLT"

stack_in_from_dst(parsed) ==
    StackLikeParameters(parsed.imm_1, parsed.dst0_reg_idx)

stack_in(parsed) == StackLikeParameters(parsed.imm_0, parsed.src0_reg_idx)

src1(parsed) ==
    LET t == parsed.src0_operand_type IN
    CASE t \in RegOnlyTags -> Register1(parsed.src0_reg_idx)
      [] t \in Imm16Tags -> Immediate1(parsed.imm_0)
      [] t = "Full_UseAbsoluteOnStack" -> AbsoluteStack(stack_in(parsed))
      [] t = "Full_UseStackWithPushPop" -> AdvanceStackPointer(stack_in(parsed))
      [] t = "Full_UseStackWithOffset" -> RelativeStack(stack_in(parsed))
      [] t = "Full_UseCodePage" -> CodePage(stack_in(parsed))

stack_out(parsed) == StackLikeParameters(parsed.imm_1, parsed.dst0_reg_idx)

out_code_page_as_stack(parsed) ==
    LET t == parsed.dst0_operand_type IN
    CASE t \in RegOnlyTags -> Register1(parsed.dst0_reg_idx)
      [] t \in Imm16Tags -> Panic("Parser wants to output to immediate")
      [] t = "Full_UseAbsoluteOnStack" -> AbsoluteStack(stack_out(parsed))
      [] t = "Full_UseStackWithPushPop" -> AdvanceStackPointer(stack_out(parsed))
      [] t = "Full_UseStackWithOffset" -> RelativeStack(stack_out(parsed))
      [] t = "Full_UseCodePage" -> AbsoluteStack(stack_out(parsed))

\* the destination, or the panic its match arm raises
out(parsed) ==
    LET t == parsed.dst0_operand_type IN
    CASE t \in RegOnlyTags -> Register1(parsed.dst0_reg_idx)
      [] t \in Imm16Tags -> Panic("Parser wants to output to immediate")
      [] t = "Full_UseAbsoluteOnStack" -> AbsoluteStack(stack_out(parsed))
      [] t = "Full_UseStackWithPushPop" -> AdvanceStackPointer(stack_out(parsed))
      [] t = "Full_UseStackWithOffset" -> RelativeStack(stack_out(parsed))
      [] t = "Full_UseCodePage" -> Panic("Parser wants to write to code page")

out2_from_dst0(parsed) == Register2(parsed.dst0_reg_idx)

out2(parsed) == Register2(parsed.dst1_reg_idx)

binop_flags_swapped(op, snd, parsed) ==
    from_binop(op, src1(parsed), Register2(parsed.src1_reg_idx), out(parsed),
               snd, predicate(parsed), parsed.set_flags_flag, parsed.swap_flag)

\* the macro binop!($op, $snd)
binop(op, snd, parsed) ==
    from_binop(op, src1(parsed), Register2(parsed.src1_reg_idx), out(parsed),
               snd, predicate(parsed), parsed.swap_flag, parsed.set_flags_flag)

no_sp_movement == AdvanceStackPointer(StackLikeParameters(0, 0))

nop_never_moves(parsed) == from_nop(no_sp_movement, no_sp_movement)

\* the arm of Opcode::Nop
nop(parsed) ==
    from_nop(IF src1(parsed).kind = "AdvanceStackPointer"
                THEN src1(parsed) ELSE no_sp_movement,
             IF out(parsed).kind = "AdvanceStackPointer"
                THEN out(parsed) ELSE no_sp_movement)

\* the match on parsed.variant.opcode, reached only when out did not panic
dispatch(parsed) ==
    LET o == parsed.opcode IN
    CASE o = "Add" -> binop("Add", Unit, parsed)
      [] o = "Sub" -> binop("Sub", Unit, parsed)
      [] o = "Mul" -> binop("Mul", out2(parsed), parsed)
      [] o = "Div" -> binop("Div", out2(parsed), parsed)
      [] o = "Binop_Xor" -> binop("Xor", Unit, parsed)
      [] o = "Binop_And" -> binop("And", Unit, parsed)
      [] o = "Binop_Or" -> binop("Or", Unit, parsed)
      [] o = "Shift_Shl" -> binop("ShiftLeft", Unit, parsed)
      [] o = "Shift_Shr" -> binop("ShiftRight", Unit, parsed)
      [] o = "Shift_Rol" -> binop("RotateLeft", Unit, parsed)
      [] o = "Shift_Ror" -> binop("RotateRight", Unit, parsed)
      [] o = "Jump" -> from_jump(src1(parsed), predicate(parsed))
      [] o \in TodoOpcodes -> Panic("not yet implemented")
      [] o = "Nop" -> nop(parsed)

\* the statements run in order: the destination match panics before the
\* opcode match is reached
decode(parsed) ==
    IF IsPanic(out(parsed)) THEN out(parsed) ELSE dispatch(parsed)

(***************************************************************************)
(* Single-word specification: one call of decode on an arbitrary word.     *)
(***************************************************************************)
\* every opcode with every pair of operand tags, and up to MaxVaried of the
\* other fields set
InitWord ==
    /\ \E op \in Opcodes, src \in OperandTypes, dst \in OperandTypes,
          o \in OperandChoices : word = MakeWord(op, src, dst, o)
    /\ instr = NotRun
    /\ raw = <<>>
    /\ program = NotRun

Decode ==
    /\ instr = NotRun
    /\ instr' = decode(word)
    /\ UNCHANGED <<word, raw, program>>

NextWord == Decode

SpecWord == InitWord /\ [][NextWord]_vars

(***************************************************************************)
(* decode_program: a whole program image to its instruction sequence.      *)
(***************************************************************************)
Capacity == 2 ^ 16

Min(a, b) == IF a <= b THEN a ELSE b

take_all(s) == s

\* raw.iter().take(1 << 16)
take(s) == SubSeq(s, 1, Min(Len(s), Capacity))

map_decode_first(s) == [i \in 1..Len(s) |-> decode(s[1])]

\* .map(|i| decode(*i))
map_decode(s) == [i \in 1..Len(s) |-> decode(s[i])]

once_gt(s) == IF Len(s) > Capacity THEN jump_to_beginning ELSE end_execution

\* std::iter::once(if raw.len() >= 1 << 16 {..} else {..})
once(s) == IF Len(s) >= Capacity THEN jump_to_beginning ELSE end_execution

chain_nothing(it, last) == it \o <<>>

\* .chain(..)
chain(it, last) == Append(it, last)

Returned(v) == [tag |-> "returned", instructions |-> v]

\* .collect() pulls the items in index order: the first word that panics
\* unwinds the call and the partly built Vec is dropped
collect(it) ==
    LET panics == {i \in 1..Len(it) : IsPanic(it[i])}
    IN  IF panics # {}
           THEN it[CHOOSE i \in panics : \A j \in panics : i <= j]
           ELSE Returned(it)

decode_program(s) ==
    LET items == chain(map_decode(take(s)), once(s)) IN collect(items)

(***************************************************************************)
(* Program specification: one call of decode_program on a program image.   *)
(***************************************************************************)
AddWord ==
    [ZeroWord("Add", "RegOnly", "RegOnly") EXCEPT
        !.src0_reg_idx = MaxReg, !.set_flags_flag = TRUE]

\* words of program images: decodable ones and one of each fatal kind
ProgramWords ==
    {AddWord,
     [ZeroWord("Jump", "RegOrImm_UseImm16Only", "RegOnly") EXCEPT
        !.imm_0 = MaxImm, !.condition = "Ne"],
     [ZeroWord("Nop", "Full_UseStackWithPushPop", "Full_UseStackWithPushPop")
        EXCEPT !.imm_0 = MaxImm],
     ZeroWord("Mul", "Full_UseCodePage", "Full_UseImm16Only"),
     ZeroWord("Sub", "RegOnly", "Full_UseCodePage"),
     ZeroWord("Ret", "RegOnly", "RegOnly")}

RECURSIVE SeqsUpTo(_, _)
SeqsUpTo(S, n) ==
    IF n = 0 THEN {<<>>}
    ELSE LET shorter == SeqsUpTo(S, n - 1)
         IN  shorter \cup {Append(s, x) : s \in shorter, x \in S}

ShortPrograms == SeqsUpTo(ProgramWords, MaxLen)

\* a program image of n words, all AddWord but word k (counted from 1)
Filled(n, k, w) == SubSeq([i \in 1..n |-> IF i = k THEN w ELSE AddWord], 1, n)

\* the lengths of the long program images: around the capacity
LongLengths == {Capacity - 1, Capacity, Capacity + 1}

\* the place of their chosen word: the first word, the last within the
\* capacity, the first beyond it
ChosenPlaces == {1, Capacity, Capacity + 1}

InitProgram ==
    /\ \/ raw \in ShortPrograms
       \/ \E n \in LongLengths, k \in ChosenPlaces, w \in ProgramWords :
             raw = Filled(n, k, w)
    /\ program = NotRun
    /\ word = AddWord
    /\ instr = NotRun

DecodeProgram ==
    /\ program = NotRun
    /\ program' = decode_program(raw)
    /\ UNCHANGED <<word, instr, raw>>

NextProgram == DecodeProgram

SpecProgram == InitProgram /\ [][NextProgram]_vars

(***************************************************************************)
(* The vocabulary of the properties, stated apart from the decoder's       *)
(* definitions above.                                                      *)
(***************************************************************************)
InvalidDstTags ==
    {"RegOrImm_UseImm16Only", "Full_UseImm16Only", "Full_UseCodePage"}

UnimplementedFamilies ==
    {"Context", "Ptr_Add", "Ptr_Sub", "Ptr_Pack", "Ptr_Shrink", "NearCall",
     "Log", "FarCall", "Ret", "UMA", "Invalid"}

BinaryOperation ==
    [Add |-> "Add", Sub |-> "Sub", Mul |-> "Mul", Div |-> "Div",
     Binop_Xor |-> "Xor", Binop_And |-> "And", Binop_Or |-> "Or",
     Shift_Shl |-> "ShiftLeft", Shift_Shr |-> "ShiftRight",
     Shift_Rol |-> "RotateLeft", Shift_Ror |-> "RotateRight"]

PredicateOf ==
    [Always |-> "Always", Gt |-> "IfGT", Lt |-> "IfLT", Eq |-> "IfEQ",
     Ge |-> "IfGE", Le |-> "IfLE", Ne |-> "IfNotEQ", GtOrLt |-> "IfGtOrLT"]

Predicates ==
    {"Always", "IfGT", "IfLT", "IfEQ", "IfGE", "IfLE", "IfNotEQ", "IfGtOrLT"}

EncodingViolation(x) ==
    /\ x.tag = "panic"
    /\ x.msg \in {"Parser wants to output to immediate",
                  "Parser wants to write to code page"}

UnsupportedOpcode(x) == x.tag = "panic" /\ x.msg = "not yet implemented"

\* the operand kind a tag stands for, over an immediate and a register
Resolved(tag, imm, reg) ==
    LET kind == CASE tag \in {"RegOnly", "RegOrImm_UseRegOnly",
                              "Full_UseRegOnly"} -> "Register"
                  [] tag \in {"RegOrImm_UseImm16Only",
                              "Full_UseImm16Only"} -> "Immediate"
                  [] tag = "Full_UseAbsoluteOnStack" -> "AbsoluteStack"
                  [] tag = "Full_UseStackWithPushPop" -> "AdvanceStackPointer"
                  [] tag = "Full_UseStackWithOffset" -> "RelativeStack"
                  [] tag = "Full_UseCodePage" -> "CodePage"
    IN  CASE kind = "Register" -> [kind |-> kind, register |-> reg]
          [] kind = "Immediate" -> [kind |-> kind, immediate |-> imm]
          [] OTHER -> [kind |-> kind,
                       params |-> [immediate |-> imm, register |-> reg]]

ResolvedSource(w) == Resolved(w.src0_operand_type, w.imm_0, w.src0_reg_idx)

ResolvedDestination(w) ==
    Resolved(w.dst0_operand_type, w.imm_1, w.dst0_reg_idx)

Decoded == instr # NotRun

Fatal(w) ==
    \/ w.dst0_operand_type \in InvalidDstTags
    \/ w.opcode \in UnimplementedFamilies

Ran == program # NotRun

\* the number of words decode_program consumes
Consumed == IF Len(raw) <= 65536 THEN Len(raw) ELSE 65536

(***************************************************************************)
(* Properties of decode_program (under SpecProgram).                       *)
(***************************************************************************)
\* C1 Length law: when decode_program returns on an input of n words, the
\* returned sequence has exactly min(n, 65536) + 1 instructions, so it is
\* never empty.
LengthLaw ==
    (Ran /\ program.tag = "returned") =>
        /\ Len(program.instructions) = Consumed + 1
        /\ program.instructions # <<>>

LengthLawWitness ==
    /\ Ran /\ program.tag = "returned"
    /\ Len(raw) > 65536
    /\ Len(program.instructions) = 65537

\* C2 Sentinel law: the last returned instruction is jump-to-beginning iff
\* n >= 65536 and end-execution iff n < 65536, and neither of the two
\* appears at any other position.
SentinelLaw ==
    (Ran /\ program.tag = "returned") =>
        LET is == program.instructions
            last == is[Len(is)]
        IN  /\ Len(is) >= 1
            /\ last \in {jump_to_beginning, end_execution}
            /\ last = jump_to_beginning <=> Len(raw) >= 65536
            /\ last = end_execution <=> Len(raw) < 65536
            /\ \A i \in 1..(Len(is) - 1) :
                  is[i] \notin {jump_to_beginning, end_execution}

SentinelLawWitness ==
    /\ Ran /\ program.tag = "returned"
    /\ Len(raw) = 65536
    /\ program.instructions[65537] = jump_to_beginning

\* C3 Index correspondence and truncation: instruction i is the decoding of
\* word i for every i up to min(n, 65536); the words beyond the first 65536
\* change nothing of the outcome (an input of 65536 words or more has the
\* outcome of its first 65536 words).
IndexCorrespondence ==
    Ran =>
        /\ program.tag = "returned" =>
              \A i \in 1..Consumed : program.instructions[i] = decode(raw[i])
        /\ Len(raw) >= 65536 =>
              program = decode_program(SubSeq(raw, 1, 65536))

IndexCorrespondenceWitness ==
    /\ Ran /\ program.tag = "returned"
    /\ Len(raw) = 65537
    /\ raw[65537] # raw[65536]
    /\ program.instructions[65536].tag = "binop"

\* C7 Fatal exits: decode_program returns iff none of the first
\* min(n, 65536) words is fatal; otherwise the call ends in an
\* EncodingViolation or UnsupportedOpcode panic and yields no instructions;
\* a fatal word beyond the first 65536 does not abort.
FatalExits ==
    Ran =>
        /\ program.tag = "returned" <=> \A i \in 1..Consumed : ~Fatal(raw[i])
        /\ program.tag # "returned" =>
              /\ EncodingViolation(program) \/ UnsupportedOpcode(program)
              /\ "instructions" \notin DOMAIN program

FatalExitsWitness ==
    /\ Ran /\ Len(raw) = 65537
    /\ \/ /\ Fatal(raw[65536])
          /\ UnsupportedOpcode(program)
       \/ /\ Fatal(raw[65537])
          /\ program.tag = "returned"

(***************************************************************************)
(* Properties of decode (under SpecWord).                                  *)
(***************************************************************************)
\* C4 Destination-validity law: a word whose destination tag is an
\* immediate-16 or the code-page tag decodes to an EncodingViolation panic
\* whatever its opcode; every other destination tag resolves, without
\* failure, to the one of Register, AbsoluteStack, AdvanceStackPointer,
\* RelativeStack it names, over the second immediate and the dst0 register.
DestinationValidity ==
    Decoded =>
        IF word.dst0_operand_type \in InvalidDstTags
           THEN EncodingViolation(instr)
           ELSE /\ ~EncodingViolation(instr)
                /\ out(word) = ResolvedDestination(word)
                /\ out(word).kind \in {"Register", "AbsoluteStack",
                                       "AdvanceStackPointer", "RelativeStack"}
                /\ instr.tag = "binop" => instr.out = ResolvedDestination(word)

DestinationValidityWitness ==
    /\ Decoded
    /\ word.opcode \in {"Jump", "Nop"} \cup UnimplementedFamilies
    /\ word.dst0_operand_type = "Full_UseCodePage"
    /\ EncodingViolation(instr)

\* C5 No-op passthrough law: a No-operation word with a valid destination
\* tag decodes to the no-op carrying (imm_0, src0 register) on its source
\* side when the source tag is stack-with-push/pop and (0, 0) otherwise,
\* and (imm_1, dst0 register) on its destination side when the destination
\* tag is stack-with-push/pop and (0, 0) otherwise.
NopPassthrough ==
    (Decoded /\ word.opcode = "Nop"
        /\ word.dst0_operand_type \notin InvalidDstTags) =>
        LET side(tag, imm, reg) ==
                [kind |-> "AdvanceStackPointer",
                 params |-> IF tag = "Full_UseStackWithPushPop"
                               THEN [immediate |-> imm, register |-> reg]
                               ELSE [immediate |-> 0, register |-> 0]]
        IN  instr = [tag |-> "nop",
                     pop |-> side(word.src0_operand_type, word.imm_0,
                                  word.src0_reg_idx),
                     push |-> side(word.dst0_operand_type, word.imm_1,
                                   word.dst0_reg_idx)]

NopPassthroughWitness ==
    /\ Decoded /\ word.opcode = "Nop"
    /\ word.src0_operand_type = "Full_UseStackWithPushPop"
    /\ word.dst0_operand_type = "Full_UseStackWithOffset"
    /\ word.imm_0 # 0 /\ word.imm_1 # 0
    /\ instr.pop.params.immediate = word.imm_0
    /\ instr.push.params.immediate = 0

\* C6 Second-destination law: a successfully decoded binary operation has
\* the second destination Register(dst1 register) iff its opcode is
\* Multiply or Divide, and the empty one for the nine other operations.
SecondDestination ==
    (Decoded /\ word.opcode \in DOMAIN BinaryOperation /\ instr.tag # "panic") =>
        /\ instr.tag = "binop"
        /\ word.opcode \in {"Mul", "Div"} =>
              instr.out2 = [kind |-> "Register", register |-> word.dst1_reg_idx]
        /\ word.opcode \notin {"Mul", "Div"} =>
              /\ instr.out2 = Unit
              /\ instr.out2 # [kind |-> "Register",
                               register |-> word.dst1_reg_idx]

SecondDestinationWitness ==
    /\ Decoded /\ word.opcode = "Div"
    /\ word.dst1_reg_idx # word.dst0_reg_idx
    /\ instr.tag = "binop"
    /\ instr.out2.register = word.dst1_reg_idx

\* C8 Predicate bijection: the eight condition codes map to Always, IfGT,
\* IfLT, IfEQ, IfGE, IfLE, IfNotEQ, IfGtOrLT respectively, no two of them
\* to the same Predicate, and the mapping never fails.
PredicateBijection ==
    /\ predicate(word) \in Predicates
    /\ (Decoded /\ instr.tag \in {"binop", "jump"}) =>
          /\ instr.predicate = PredicateOf[word.condition]
          /\ \A c \in Conditions \ {word.condition} :
                predicate([word EXCEPT !.condition = c]) # instr.predicate
          /\ {predicate([word EXCEPT !.condition = c]) : c \in Conditions}
                = Predicates

PredicateBijectionWitness ==
    /\ Decoded /\ instr.tag = "jump"
    /\ word.condition = "Ge"
    /\ instr.predicate = "IfGE"

\* C9 Binary-operation construction: a word of one of the 11 binary
\* operations with a valid destination tag decodes to that operation's
\* instruction with source = the resolution of the source tag over
\* (imm_0, src0 register), second source = Register(src1 register),
\* destination = the resolution of the destination tag over
\* (imm_1, dst0 register), the mapped predicate and the word's two flags.
BinopConstruction ==
    (Decoded /\ word.opcode \in DOMAIN BinaryOperation
        /\ word.dst0_operand_type \notin InvalidDstTags) =>
        /\ DOMAIN instr = {"tag", "op", "src1", "src2", "out", "out2",
                           "predicate", "swap", "set_flags"}
        /\ instr.tag = "binop"
        /\ instr.op = BinaryOperation[word.opcode]
        /\ instr.src1 = ResolvedSource(word)
        /\ instr.src2 = [kind |-> "Register", register |-> word.src1_reg_idx]
        /\ instr.out = ResolvedDestination(word)
        /\ instr.predicate = PredicateOf[word.condition]
        /\ instr.swap = word.swap_flag
        /\ instr.set_flags = word.set_flags_flag

BinopConstructionWitness ==
    /\ Decoded /\ word.opcode = "Shift_Rol"
    /\ word.src0_operand_type = "Full_UseCodePage"
    /\ word.dst0_operand_type = "Full_UseStackWithPushPop"
    /\ word.swap_flag /\ ~word.set_flags_flag
    /\ instr.tag = "binop" /\ instr.swap /\ ~instr.set_flags
    /\ instr.src1.kind = "CodePage"

\* the Jump words that differ from w in one field other than the source
\* tag, imm_0, the src0 register and the condition, the destination tag
\* drawn from tags
JumpVariants(w, tags) ==
    {[w EXCEPT !.dst0_operand_type = t] : t \in tags}
    \cup {[w EXCEPT !.imm_1 = v] : v \in Imm16}
    \cup {[w EXCEPT !.src1_reg_idx = r] : r \in RegIdx}
    \cup {[w EXCEPT !.dst0_reg_idx = r] : r \in RegIdx}
    \cup {[w EXCEPT !.dst1_reg_idx = r] : r \in RegIdx}
    \cup {[w EXCEPT !.swap_flag = b] : b \in BOOLEAN}
    \cup {[w EXCEPT !.set_flags_flag = b] : b \in BOOLEAN}

\* C10 as stated: a Jump word decodes to the jump instruction over its
\* resolved source and mapped predicate, and to the same outcome as every
\* Jump word with the same source tag, imm_0, src0 register and condition,
\* whatever the destination tag and the other fields are.
JumpFromSourceOnly ==
    (Decoded /\ word.opcode = "Jump") =>
        /\ instr = [tag |-> "jump", source |-> ResolvedSource(word),
                    predicate |-> PredicateOf[word.condition]]
        /\ \A w \in JumpVariants(word, OperandTypes) : decode(w) = instr

\* C10 amended: the same for the Jump words whose destination tag is
\* valid (not immediate-16, not code-page).
JumpFromSourceOnlyValidDst ==
    (Decoded /\ word.opcode = "Jump"
        /\ word.dst0_operand_type \notin InvalidDstTags) =>
        /\ instr = [tag |-> "jump", source |-> ResolvedSource(word),
                    predicate |-> PredicateOf[word.condition]]
        /\ \A w \in JumpVariants(word, OperandTypes \ InvalidDstTags) :
              decode(w) = instr

JumpFromSourceOnlyWitness ==
    /\ Decoded /\ word.opcode = "Jump"
    /\ word.dst0_operand_type = "Full_UseStackWithPushPop"
    /\ word.imm_1 # 0 /\ word.dst0_reg_idx # 0
    /\ word.src0_operand_type = "Full_UseAbsoluteOnStack"
    /\ instr.tag = "jump"
    /\ instr.source.kind = "AbsoluteStack"

====
